---- MODULE Spec2Model ----
(***************************************************************************)
(* Model of src/truncateString.cpp:                                        *)
(*                                                                         *)
(*   std::string truncateString(const std::string& str, size_t width)      *)
(*                                                                         *)
(* A std::string is a finite sequence of characters, size_t is an unsigned *)
(* word (arithmetic modulo 2^SizeBits), and std::string::substr either     *)
(* returns a string or throws std::out_of_range.  Independent call sites   *)
(* run the function concurrently, one statement at a time; each has its    *)
(* own argument string, width, and returned value.                         *)
(***************************************************************************)
EXTENDS Integers, Sequences, FiniteSets

(* ---------------------------- bounds ----------------------------------- *)

\* Longest argument string a caller passes.
MaxLen == 3

\* Largest ordinary width a caller passes (SIZE_MAX is passed as well).
MaxWidth == 4

(* ---------------------------- data ------------------------------------- *)

\* Characters a string is made of: an ordinary character and the character
\* that the marker is made of.
Chars == {"a", "."}

\* The string literal "." of line 7.
Marker == <<".">>

\* The string literal "" of line 11.
Empty == <<>>

\* size_t is an unsigned integer type of at least 16 bits; its arithmetic
\* is modulo 2^SizeBits, whatever the number of bits.
SizeBits == 16

SizeMod == 2 ^ SizeBits

SIZE_MAX == SizeMod - 1

\* The widths callers pass: the small ones and the largest size_t.
Widths == (0 .. MaxWidth) \cup {SIZE_MAX}

\* std::string values of at most n characters
StringsUpTo(n) == UNION {[1 .. k -> Chars] : k \in 0 .. n}

\* The call sites (the two tests of src/tests/test_truncateString.cpp call
\* the function independently of each other).
Sites == {"ShorterStringUnchanged", "LongerStringTruncated"}

Min(a, b) == IF a <= b THEN a ELSE b

\* Unsigned subtraction on size_t: wraps around below zero.
SizeSub(a, b) == (a - b + SizeMod) % SizeMod

\* str.length()
length(s) == Len(s)

\* An evaluation either yields a string or throws.
Value(v) == [thrown |-> "none", val |-> v]

Throw(e) == [thrown |-> e, val |-> Empty]

\* std::string::substr(pos, count): throws std::out_of_range when
\* pos > size(), else the characters [pos, pos + min(count, size() - pos)).
substr(s, pos, count) ==
    IF pos > length(s)
    THEN Throw("std::out_of_range")
    ELSE Value(SubSeq(s, pos + 1, pos + Min(count, length(s) - pos)))

\* operator+(std::string, const char*) applied to an evaluation
Plus(r, lit) == IF r.thrown = "none" THEN Value(r.val \o lit) ELSE r

(* ------------------- the statements of truncateString ------------------ *)

\* line 5: if (str.length() > width)
ExceedsMissingCheck(s, w) == TRUE

ExceedsOrEqual(s, w) == length(s) >= w

Exceeds(s, w) == length(s) > w

\* line 6: if (width > 1)
WidthNotOne(w) == w # 1

WidthGtOne(w) == w > 1

\* line 8: else if (width == 1)
WidthAtMostOne(w) == w <= 1

WidthIsOne(w) == w = 1

\* line 7: return str.substr(0, width - 1) + ".";
ReturnL7FullWidth(s, w) == Plus(substr(s, 0, w), Marker)

ReturnL7TwoLess(s, w) == Plus(substr(s, 0, SizeSub(w, 2)), Marker)

ReturnL7FromOne(s, w) == Plus(substr(s, 1, SizeSub(w, 1)), Marker)

ReturnL7(s, w) == Plus(substr(s, 0, SizeSub(w, 1)), Marker)

\* line 9: return str.substr(0, 1);
ReturnL9WithMarker(s, w) == Plus(substr(s, 0, 1), Marker)

ReturnL9MarkerOnly(s, w) == Value(Marker)

ReturnL9(s, w) == substr(s, 0, 1)

\* line 11: return "";
ReturnL11(s, w) == Value(Empty)

\* line 14: return str;
ReturnL14(s, w) == Value(s)

\* The statement control reaches after the tests of lines 5, 6 and 8.
Branch(s, w) ==
    IF Exceeds(s, w)
    THEN IF WidthGtOne(w) THEN "L7"
         ELSE IF WidthIsOne(w) THEN "L9"
         ELSE "L11"
    ELSE "L14"

\* line 4: str is a reference to const: the caller's string after the call.
strAfterResize(s, w) == SubSeq(s, 1, Min(w, length(s)))

strAfter(s, w) == s

\* The whole function: the value returned (or the exception thrown) for
\* arguments (s, w).
truncateString(s, w) ==
    CASE Branch(s, w) = "L7" -> ReturnL7(s, w)
      [] Branch(s, w) = "L9" -> ReturnL9(s, w)
      [] Branch(s, w) = "L11" -> ReturnL11(s, w)
      [] Branch(s, w) = "L14" -> ReturnL14(s, w)

(* ---------------------------- state ------------------------------------ *)

VARIABLES
    pc,      \* pc[c]: where call site c is: "idle", "L5", "L7", "L9", "L11", "L14", "done"
    str,     \* str[c]: the caller's string that parameter str refers to
    width,   \* width[c]: parameter width
    ret,     \* ret[c]: the returned string (Empty until the call returns)
    thrown,  \* thrown[c]: the exception that ended the call, or "none"
    again    \* again[c]: str[c] is what the previous call with width[c] returned

vars == <<pc, str, width, ret, thrown, again>>

Init ==
    /\ pc = [c \in Sites |-> "idle"]
    /\ str = [c \in Sites |-> Empty]
    /\ width = [c \in Sites |-> 0]
    /\ ret = [c \in Sites |-> Empty]
    /\ thrown = [c \in Sites |-> "none"]
    /\ again = [c \in Sites |-> FALSE]

\* A caller invokes truncateString(s, w).
Call(c) ==
    /\ pc[c] = "idle"
    /\ \E s \in StringsUpTo(MaxLen), w \in Widths :
          /\ str' = [str EXCEPT ![c] = s]
          /\ width' = [width EXCEPT ![c] = w]
    /\ pc' = [pc EXCEPT ![c] = "L5"]
    /\ UNCHANGED <<ret, thrown, again>>

\* lines 5, 6, 8: the tests that select the return statement.
Test(c) ==
    /\ pc[c] = "L5"
    /\ pc' = [pc EXCEPT ![c] = Branch(str[c], width[c])]
    /\ UNCHANGED <<str, width, ret, thrown, again>>

\* A return statement: its expression is evaluated and the call ends.
Return(c, at, r) ==
    /\ pc[c] = at
    /\ pc' = [pc EXCEPT ![c] = "done"]
    /\ ret' = [ret EXCEPT ![c] = r.val]
    /\ thrown' = [thrown EXCEPT ![c] = r.thrown]
    /\ str' = [str EXCEPT ![c] = strAfter(str[c], width[c])]
    /\ UNCHANGED <<width, again>>

RetL7(c) == Return(c, "L7", ReturnL7(str[c], width[c]))

RetL9(c) == Return(c, "L9", ReturnL9(str[c], width[c]))

RetL11(c) == Return(c, "L11", ReturnL11(str[c], width[c]))

RetL14(c) == Return(c, "L14", ReturnL14(str[c], width[c]))

\* The caller passes the returned string to truncateString once more, with
\* the same width.
Recall(c) ==
    /\ pc[c] = "done"
    /\ thrown[c] = "none"
    /\ ~again[c]
    /\ str' = [str EXCEPT ![c] = ret[c]]
    /\ ret' = [ret EXCEPT ![c] = Empty]
    /\ again' = [again EXCEPT ![c] = TRUE]
    /\ pc' = [pc EXCEPT ![c] = "L5"]
    /\ UNCHANGED <<width, thrown>>

\* The caller drops the result; the site is free for another call.
Finish(c) ==
    /\ pc[c] = "done"
    /\ pc' = [pc EXCEPT ![c] = "idle"]
    /\ str' = [str EXCEPT ![c] = Empty]
    /\ width' = [width EXCEPT ![c] = 0]
    /\ ret' = [ret EXCEPT ![c] = Empty]
    /\ thrown' = [thrown EXCEPT ![c] = "none"]
    /\ again' = [again EXCEPT ![c] = FALSE]

Next ==
    \E c \in Sites :
        \/ Call(c)
        \/ Test(c)
        \/ RetL7(c)
        \/ RetL9(c)
        \/ RetL11(c)
        \/ RetL14(c)
        \/ Recall(c)
        \/ Finish(c)

Spec == Init /\ [][Next]_vars

(* ---------------------------- properties ------------------------------- *)

\* Site c's call has returned a string to its caller.
Returned(c) == pc[c] = "done" /\ thrown[c] = "none"

\* Site c is inside truncateString.
Running(c) == pc[c] \in {"L5", "L7", "L9", "L11", "L14"}

\* A statement of site c's call.
Step(c) == Test(c) \/ RetL7(c) \/ RetL9(c) \/ RetL11(c) \/ RetL14(c)

\* C1 - length bound: whatever the string and the width, the returned
\* string has at most width characters.
LengthBound ==
    \A c \in Sites : Returned(c) => Len(ret[c]) <= width[c]

\* A call that truncated to a width of at least 2 has returned.
LengthBoundWitness ==
    \E c \in Sites :
        Returned(c) /\ Len(str[c]) > width[c] /\ width[c] > 1 /\ Len(ret[c]) = width[c]

\* C2 - identity below the threshold: a string of at most width characters
\* (the empty string and width 0 included) is returned as it is.
IdentityBelowThreshold ==
    \A c \in Sites :
        Returned(c) /\ Len(str[c]) <= width[c] => ret[c] = str[c]

\* A string of exactly width characters (more than one) was returned as it is.
IdentityWitness ==
    \E c \in Sites :
        Returned(c) /\ ~again[c] /\ Len(str[c]) = width[c] /\ width[c] > 1 /\ ret[c] = str[c]

\* C3 - marker on truncation: a string longer than width, width > 1, comes
\* back as its first width - 1 characters followed by '.': exactly width
\* characters, the last one '.'.
MarkerOnTruncation ==
    \A c \in Sites :
        Returned(c) /\ Len(str[c]) > width[c] /\ width[c] > 1 =>
            /\ ret[c] = SubSeq(str[c], 1, width[c] - 1) \o <<".">>
            /\ Len(ret[c]) = width[c]
            /\ ret[c][Len(ret[c])] = "."

\* A string was cut where it held an ordinary character, and the marker
\* took that place.
MarkerWitness ==
    \E c \in Sites :
        /\ Returned(c) /\ Len(str[c]) > width[c] /\ width[c] > 1
        /\ str[c][width[c]] = "a"
        /\ ret[c][width[c]] = "."

\* C4 - exact length: the returned string has min(len(s), w) characters when
\* w >= 1 and none when w = 0.
ExactLength ==
    \A c \in Sites :
        Returned(c) =>
            Len(ret[c]) = IF width[c] >= 1 THEN Min(Len(str[c]), width[c]) ELSE 0

\* A string longer than one character was cut to width 1.
ExactLengthWitness ==
    \E c \in Sites :
        Returned(c) /\ width[c] = 1 /\ Len(str[c]) = MaxLen /\ Len(ret[c]) = 1

\* C5 - single-width edge: with width 1 a string of more than one character
\* comes back as its first character alone, without a marker.
SingleWidthEdge ==
    \A c \in Sites :
        Returned(c) /\ Len(str[c]) > 1 /\ width[c] = 1 => ret[c] = <<str[c][1]>>

\* The first character returned alone is not the marker character.
SingleWidthWitness ==
    \E c \in Sites :
        Returned(c) /\ Len(str[c]) > 1 /\ width[c] = 1 /\ ret[c] = <<"a">>

\* C6 - zero-width edge: with width 0 the empty string is returned,
\* whatever the string.
ZeroWidthEdge ==
    \A c \in Sites : Returned(c) /\ width[c] = 0 => ret[c] = <<>>

\* A call with width 0 and a string that is not empty has returned.
ZeroWidthWitness ==
    \E c \in Sites :
        Returned(c) /\ width[c] = 0 /\ Len(str[c]) > 0 /\ ret[c] = <<>>

\* C7 - idempotence: truncating the returned string once more with the same
\* width returns it unchanged.
Idempotence ==
    \A c \in Sites : Returned(c) /\ again[c] => ret[c] = str[c]

\* The second call has returned, for a first result that ends in '.' and
\* fills the width.
IdempotenceWitness ==
    \E c \in Sites :
        /\ Returned(c) /\ again[c]
        /\ width[c] > 1 /\ Len(str[c]) = width[c]
        /\ str[c][width[c]] = "."
        /\ ret[c] = str[c]

\* C8 - purity: a statement of a call leaves the caller's string and the
\* width as they are and touches nothing of any other call site, and calls
\* that returned for equal arguments hold equal results, however the calls
\* were interleaved.
PurityStep ==
    /\ \A c \in Sites :
          Running(c) =>
              /\ str'[c] = str[c]
              /\ width'[c] = width[c]
              /\ pc'[c] # pc[c] =>
                    \A d \in Sites \ {c} :
                        /\ pc'[d] = pc[d] /\ str'[d] = str[d] /\ width'[d] = width[d]
                        /\ ret'[d] = ret[d] /\ thrown'[d] = thrown[d] /\ again'[d] = again[d]
    /\ \A c, d \in Sites :
          /\ pc'[c] = "done" /\ pc'[d] = "done"
          /\ str'[c] = str'[d] /\ width'[c] = width'[d]
          => ret'[c] = ret'[d] /\ thrown'[c] = thrown'[d]

Purity == [][PurityStep]_vars

\* Two call sites have returned for the same string and width, one through
\* a first call and one through a repeated call, and the string was cut.
PurityWitness ==
    \E c, d \in Sites :
        /\ c # d /\ Returned(c) /\ Returned(d)
        /\ again[c] /\ ~again[d]
        /\ str[c] = str[d] /\ width[c] = width[d]
        /\ Len(str[c]) = width[c] /\ width[c] > 1

\* C9 - totality: every statement of a call can be executed and the call
\* ends by returning a string, never by throwing; width - 1 is computed
\* only where width > 1, so it does not wrap around, and each substr starts
\* at position 0 of a string longer than the count it asks for.
Totality ==
    \A c \in Sites :
        /\ Running(c) => ENABLED Step(c)
        /\ pc[c] = "done" => thrown[c] = "none"
        /\ pc[c] = "L7" =>
              /\ width[c] > 1
              /\ SizeSub(width[c], 1) = width[c] - 1
              /\ 0 <= length(str[c])
              /\ length(str[c]) > SizeSub(width[c], 1)
        /\ pc[c] = "L9" =>
              /\ 0 <= length(str[c])
              /\ length(str[c]) > 1

\* A call with the largest width, and a call about to evaluate width - 1.
TotalityWitness ==
    \E c, d \in Sites :
        /\ Returned(c) /\ width[c] = SIZE_MAX /\ Len(str[c]) = MaxLen
        /\ pc[d] = "L7" /\ width[d] = 2

\* C10 - prefix preservation: every character of the returned string is the
\* character of the argument at the same position, except the last one when
\* the string was cut to a width > 1 (the marker); so the returned string
\* equals the argument exactly when the argument has at most width
\* characters.
PrefixPreservation ==
    \A c \in Sites :
        Returned(c) =>
            /\ Len(ret[c]) <= Len(str[c])
            /\ \A i \in 1 .. Len(ret[c]) :
                  \/ ret[c][i] = str[c][i]
                  \/ /\ i = Len(ret[c])
                     /\ Len(str[c]) > width[c]
                     /\ width[c] > 1
                     /\ ret[c][i] = "."
            /\ (ret[c] = str[c]) <=> (Len(str[c]) <= width[c])

\* A string that starts with '.' and goes on with ordinary characters was
\* cut to width 2.
PrefixWitness ==
    \E c \in Sites :
        /\ Returned(c) /\ ~again[c] /\ width[c] = 2
        /\ str[c] = <<".", "a", "a">>
        /\ ret[c] = <<".", ".">>

====
